---- MODULE Spec2Model ----
(***************************************************************************)
(* Warehouse grid navigation: the all-pairs shortest-path route table      *)
(* (warehouse_utils.py), the Bug2 boundary-following navigator (task 3.2)  *)
(* and the two-robot yield/hold/resume coordination protocol (task 4).     *)
(***************************************************************************)
EXTENDS Integers, Sequences, FiniteSets, TLC

(***************************************************************************)
(* Grid definitions (warehouse_utils.py)                                   *)
(***************************************************************************)
NUM_ROWS == 7
NUM_COLS == 6
TOTAL_POSITIONS == NUM_ROWS * NUM_COLS
STATIC_OBSTACLES == {8, 9, 29, 35}

\* Python's None, for positions, indices and headings.
None == 0
NoDir == <<0, 0>>
NoCoords == <<-1, -1>>
\* float('inf')
Infinity == 1000

FREE_POSITIONS == {i \in 1..TOTAL_POSITIONS : i \notin STATIC_OBSTACLES}

Abs(x) == IF x < 0 THEN -x ELSE x

\* Variant of to_index that multiplies the row by the number of rows.
to_index_RowStride(r, c) ==
    IF 0 <= r /\ r < NUM_ROWS /\ 0 <= c /\ c < NUM_COLS
    THEN r * NUM_ROWS + c + 1
    ELSE None

to_index(r, c) ==
    IF 0 <= r /\ r < NUM_ROWS /\ 0 <= c /\ c < NUM_COLS
    THEN r * NUM_COLS + c + 1
    ELSE None

\* to_coords is only applied to positions in 1..TOTAL_POSITIONS by its callers,
\* apart from the None result which is kept as <<-1, -1>> (no cell).
to_coords(index) ==
    IF 1 <= index /\ index <= TOTAL_POSITIONS
    THEN <<(index - 1) \div NUM_COLS, (index - 1) % NUM_COLS>>
    ELSE NoCoords

\* Up, Down, Left, Right
get_neighbors(position, obs) ==
    LET rc == to_coords(position)
        r == rc[1]
        c == rc[2]
        potential_moves == << <<r - 1, c>>, <<r + 1, c>>, <<r, c - 1>>, <<r, c + 1>> >>
        cand == [k \in 1..4 |-> to_index(potential_moves[k][1], potential_moves[k][2])]
    IN  SelectSeq(cand, LAMBDA n : n /= None /\ n \notin obs)

(***************************************************************************)
(* Dijkstra (warehouse_utils.py)                                           *)
(***************************************************************************)
\* Variant of the heap order that pops the larger node first among equal distances.
HeapLess_LargestFirst(a, b) == a[1] < b[1] \/ (a[1] = b[1] /\ a[2] > b[2])

\* heapq orders the (distance, node) tuples lexicographically.
HeapLess(a, b) == a[1] < b[1] \/ (a[1] = b[1] /\ a[2] < b[2])

HeapMin(pq) == CHOOSE a \in pq : \A b \in pq : a = b \/ HeapLess(a, b)

\* Variant of RelaxNeighbors that forgets the edge weight.
RECURSIVE RelaxNeighbors_NoWeight(_, _, _, _, _)
RelaxNeighbors_NoWeight(nbrs, k, current_node, current_distance, st) ==
    IF k > Len(nbrs) THEN st
    ELSE LET neighbor == nbrs[k]
             distance == current_distance
         IN  IF distance < st.distances[neighbor]
             THEN RelaxNeighbors_NoWeight(nbrs, k + 1, current_node, current_distance,
                    [distances |-> [st.distances EXCEPT ![neighbor] = distance],
                     predecessors |-> [st.predecessors EXCEPT ![neighbor] = current_node],
                     priority_queue |-> st.priority_queue \cup {<<distance, neighbor>>}])
             ELSE RelaxNeighbors_NoWeight(nbrs, k + 1, current_node, current_distance, st)

\* The for-loop over the neighbours of current_node, from the k-th on.
\* st = [distances, predecessors, priority_queue]
RECURSIVE RelaxNeighbors(_, _, _, _, _)
RelaxNeighbors(nbrs, k, current_node, current_distance, st) ==
    IF k > Len(nbrs) THEN st
    ELSE LET neighbor == nbrs[k]
             distance == current_distance + 1
         IN  IF distance < st.distances[neighbor]
             THEN RelaxNeighbors(nbrs, k + 1, current_node, current_distance,
                    [distances |-> [st.distances EXCEPT ![neighbor] = distance],
                     predecessors |-> [st.predecessors EXCEPT ![neighbor] = current_node],
                     priority_queue |-> st.priority_queue \cup {<<distance, neighbor>>}])
             ELSE RelaxNeighbors(nbrs, k + 1, current_node, current_distance, st)

\* The while-loop over the priority queue.
RECURSIVE DijkstraLoop(_)
DijkstraLoop(st) ==
    IF st.priority_queue = {} THEN st.predecessors
    ELSE LET top == HeapMin(st.priority_queue)
             current_distance == top[1]
             current_node == top[2]
             popped == [st EXCEPT !.priority_queue = st.priority_queue \ {top}]
         IN  IF current_distance > st.distances[current_node]
             THEN DijkstraLoop(popped)
             ELSE DijkstraLoop(RelaxNeighbors(get_neighbors(current_node, STATIC_OBSTACLES),
                                              1, current_node, current_distance, popped))

dijkstra_shortest_paths(start_node) ==
    DijkstraLoop([distances |-> [node \in FREE_POSITIONS |->
                                    IF node = start_node THEN 0 ELSE Infinity],
                  predecessors |-> [node \in FREE_POSITIONS |-> None],
                  priority_queue |-> {<<0, start_node>>}])

Reverse(s) == [i \in 1..Len(s) |-> s[Len(s) + 1 - i]]

\* The walk from end_node back along the predecessors (path is built end first).
RECURSIVE WalkBack(_, _, _)
WalkBack(current, predecessors, path) ==
    IF current = None THEN path
    ELSE WalkBack(IF current \in DOMAIN predecessors THEN predecessors[current] ELSE None,
                  predecessors, Append(path, current))

reconstruct_path(start_node, end_node, predecessors) ==
    LET path == WalkBack(end_node, predecessors, <<>>)
    IN  IF path /= <<>> /\ path[Len(path)] = start_node
        THEN Reverse(path)
        ELSE <<>>

\* One Dijkstra run per source, as in the outer loop of compute_all_shortest_paths.
predecessors_from == [start_pos \in FREE_POSITIONS |-> dijkstra_shortest_paths(start_pos)]

compute_all_shortest_paths ==
    [start_pos \in FREE_POSITIONS |->
        [end_pos \in FREE_POSITIONS \ {start_pos} |->
            reconstruct_path(start_pos, end_pos, predecessors_from[start_pos])]]

all_paths == compute_all_shortest_paths

(***************************************************************************)
(* Bug2Robot (task 3.2)                                                    *)
(***************************************************************************)
\* Variant of the priority table that turns left first.
RIGHT_TURN_ORDER_LeftFirst(dir) ==
    CASE dir = <<0, 1>>  -> << <<-1, 0>>, <<0, 1>>, <<1, 0>>, <<0, -1>> >>
      [] dir = <<0, -1>> -> << <<1, 0>>, <<0, -1>>, <<-1, 0>>, <<0, 1>> >>
      [] dir = <<1, 0>>  -> << <<0, 1>>, <<1, 0>>, <<0, -1>>, <<-1, 0>> >>
      [] dir = <<-1, 0>> -> << <<0, -1>>, <<-1, 0>>, <<0, 1>>, <<1, 0>> >>

\* [Turn Right, Go Straight, Turn Left, Turn Back], keyed by (dr, dc)
RIGHT_TURN_ORDER(dir) ==
    CASE dir = <<0, 1>>  -> << <<1, 0>>, <<0, 1>>, <<-1, 0>>, <<0, -1>> >>
      [] dir = <<0, -1>> -> << <<-1, 0>>, <<0, -1>>, <<1, 0>>, <<0, 1>> >>
      [] dir = <<1, 0>>  -> << <<0, -1>>, <<1, 0>>, <<0, 1>>, <<-1, 0>> >>
      [] dir = <<-1, 0>> -> << <<0, 1>>, <<-1, 0>>, <<0, -1>>, <<1, 0>> >>

\* The list is unpacked as (dc, dr) by the loop that reads it.
initial_moves == << <<0, 1>>, <<1, 0>>, <<0, -1>>, <<-1, 0>> >>

Sign(d) == IF d > 0 THEN 1 ELSE IF d < 0 THEN -1 ELSE 0

\* Variant of the loop body whose column step uses the row direction.
MLineAdvance_ColumnByDr(r, c, goal_r, goal_c) ==
    LET dr == Sign(goal_r - r)
        dc == Sign(goal_c - c)
    IN  IF Abs(goal_r - r) >= Abs(goal_c - c) THEN <<r + dr, c>> ELSE <<r, c + dr>>

\* The (r, c) left by one pass through the body of the while-loop of
\* _calculate_m_line.
MLineAdvance(r, c, goal_r, goal_c) ==
    LET dr == Sign(goal_r - r)
        dc == Sign(goal_c - c)
    IN  IF Abs(goal_r - r) >= Abs(goal_c - c) THEN <<r + dr, c>> ELSE <<r, c + dc>>

\* The while-loop of _calculate_m_line from cell (r, c) on.
RECURSIVE MLineLoop(_, _, _, _, _)
MLineLoop(r, c, goal_r, goal_c, m_line_points) ==
    IF r = goal_r /\ c = goal_c THEN m_line_points
    ELSE LET pts == m_line_points \cup {to_index(r, c)}
             rc == MLineAdvance(r, c, goal_r, goal_c)
         IN  MLineLoop(rc[1], rc[2], goal_r, goal_c, pts)

_calculate_m_line(plan_start, goal_pos) ==
    LET s == to_coords(plan_start)
        g == to_coords(goal_pos)
    IN  MLineLoop(s[1], s[2], g[1], g[2], {}) \cup {goal_pos}

\* Variant of _is_blocked whose range misses the last cell.
_is_blocked_ShortRange(self, position) ==
    position \in self.obstacles \/ position \notin 1..(TOTAL_POSITIONS - 1)

_is_blocked(self, position) ==
    position \in self.obstacles \/ position \notin 1..TOTAL_POSITIONS

ManhattanDistance(a, b) ==
    Abs(to_coords(a)[1] - to_coords(b)[1]) + Abs(to_coords(a)[2] - to_coords(b)[2])

_dist_to_goal(self, pos) == ManhattanDistance(pos, self.goal_pos)

\* list.index: the first position of x in the list (x is in the list).
IndexOf(seq, x) == CHOOSE i \in 1..Len(seq) : seq[i] = x /\ \A j \in 1..(i - 1) : seq[j] /= x

InSeq(seq, x) == \E i \in 1..Len(seq) : seq[i] = x

\* First candidate of the list, from the k-th on, whose cell is in the grid and
\* not blocked; flip says the pairs are read as (dc, dr).
RECURSIVE FirstClear(_, _, _, _)
FirstClear(self, moves, flip, k) ==
    IF k > Len(moves) THEN [pos |-> None, dir |-> self.current_dir]
    ELSE LET dr == IF flip THEN moves[k][2] ELSE moves[k][1]
             dc == IF flip THEN moves[k][1] ELSE moves[k][2]
             rc == to_coords(self.current_pos)
             neighbor_index == to_index(rc[1] + dr, rc[2] + dc)
         IN  IF neighbor_index /= None /\ ~_is_blocked(self, neighbor_index)
             THEN [pos |-> neighbor_index, dir |-> <<dr, dc>>]
             ELSE FirstClear(self, moves, flip, k + 1)

\* Returns the chosen cell (or None) and the heading it leaves in current_dir.
_find_boundary_move(self) ==
    IF self.current_dir = NoDir
    THEN FirstClear(self, initial_moves, TRUE, 1)
    ELSE FirstClear(self, RIGHT_TURN_ORDER(self.current_dir), FALSE, 1)

\* The search loop of the off-plan branch, over 0-based plan indices i..len-1.
\* acc = [min_dist, next_path_pos, path_index]
RECURSIVE NearestLoop(_, _, _)
NearestLoop(self, i, acc) ==
    IF i >= Len(self.precomputed_path) THEN acc
    ELSE LET path_pos == self.precomputed_path[i + 1]
             dist == ManhattanDistance(self.current_pos, path_pos)
         IN  IF dist < acc.min_dist
             THEN NearestLoop(self, i + 1,
                    [min_dist |-> dist, next_path_pos |-> path_pos, path_index |-> i - 1])
             ELSE NearestLoop(self, i + 1, acc)

\* Returns the predicted next cell (or None) and the value left in path_index
\* (plan indices are 0-based as in the source).
_get_move_to_goal(self) ==
    IF InSeq(self.precomputed_path, self.current_pos)
    THEN LET current_index == IndexOf(self.precomputed_path, self.current_pos) - 1
         IN  [pos |-> IF current_index + 1 < Len(self.precomputed_path)
                      THEN self.precomputed_path[current_index + 2]
                      ELSE None,
              path_index |-> self.path_index]
    ELSE LET start_index == IF InSeq(self.precomputed_path, self.hit_point)
                            THEN IndexOf(self.precomputed_path, self.hit_point) - 1
                            ELSE 0
             found == NearestLoop(self, start_index,
                        [min_dist |-> Infinity, next_path_pos |-> None,
                         path_index |-> self.path_index])
         IN  [pos |-> IF found.next_path_pos /= None
                      THEN self.precomputed_path[found.path_index + 2]
                      ELSE None,
              path_index |-> found.path_index]

\* Variant of the leave condition that accepts an equal distance.
LeaveCondition_NotStrict(self, next_pos) ==
    next_pos \in self.m_line /\ _dist_to_goal(self, next_pos) <= self.hit_distance

\* Bug2 leave condition, on the chosen next boundary cell.
LeaveCondition(self, next_pos) ==
    next_pos \in self.m_line /\ _dist_to_goal(self, next_pos) < self.hit_distance

\* Variant of the hit-point test that needs a strictly larger distance.
BackAtHitPoint_StrictlyFarther(self, next_pos) ==
    /\ next_pos = self.hit_point
    /\ self.current_pos /= self.hit_point
    /\ _dist_to_goal(self, next_pos) > self.hit_distance

\* Returned to the hit point without a better leave point.
BackAtHitPoint(self, next_pos) ==
    /\ next_pos = self.hit_point
    /\ self.current_pos /= self.hit_point
    /\ _dist_to_goal(self, next_pos) >= self.hit_distance

\* The tail of step: execute the move.
ExecuteMove(self, next_pos) ==
    IF next_pos /= None /\ self.state /= "FAILURE"
    THEN [self |-> [self EXCEPT
                      !.path_index = IF self.state = "MOVE_TO_GOAL"
                                        /\ InSeq(self.precomputed_path, next_pos)
                                     THEN IndexOf(self.precomputed_path, next_pos) - 1
                                     ELSE @,
                      !.current_pos = next_pos,
                      !.path_taken = Append(@, next_pos)],
          ret |-> FALSE]
    ELSE [self |-> self, ret |-> TRUE]

StepMoveToGoal(self) ==
    LET g == _get_move_to_goal(self)
        s0 == [self EXCEPT !.path_index = g.path_index]
        predicted_next_pos == g.pos
    IN  IF predicted_next_pos = None THEN [self |-> s0, ret |-> TRUE]
        ELSE IF _is_blocked(s0, predicted_next_pos)
        THEN LET s1 == [s0 EXCEPT !.state = "FOLLOW_BOUNDARY",
                                  !.hit_point = s0.current_pos,
                                  !.hit_distance = _dist_to_goal(s0, s0.current_pos),
                                  !.current_dir = NoDir]
                 b == _find_boundary_move(s1)
             IN  IF b.pos = None
                 THEN [self |-> [s1 EXCEPT !.state = "FAILURE"], ret |-> FALSE]
                 ELSE ExecuteMove([s1 EXCEPT !.current_dir = b.dir], b.pos)
        ELSE ExecuteMove([s0 EXCEPT !.current_dir =
                            <<to_coords(predicted_next_pos)[1] - to_coords(s0.current_pos)[1],
                              to_coords(predicted_next_pos)[2] - to_coords(s0.current_pos)[2]>>],
                         predicted_next_pos)

StepFollowBoundary(self) ==
    LET b == _find_boundary_move(self)
        s1 == [self EXCEPT !.current_dir = b.dir]
    IN  IF b.pos = None
        THEN [self |-> [self EXCEPT !.state = "FAILURE"], ret |-> FALSE]
        ELSE IF LeaveCondition(s1, b.pos)
        THEN ExecuteMove([s1 EXCEPT !.state = "MOVE_TO_GOAL",
                                    !.leave_point = s1.current_pos], b.pos)
        ELSE IF BackAtHitPoint(s1, b.pos)
        THEN [self |-> [s1 EXCEPT !.state = "FAILURE"], ret |-> FALSE]
        ELSE ExecuteMove(s1, b.pos)

\* Variant of step whose second branch is a plain else.
Bug2Step_ElseFollows(self) ==
    IF self.current_pos = self.goal_pos THEN [self |-> self, ret |-> TRUE]
    ELSE IF self.state = "MOVE_TO_GOAL" THEN StepMoveToGoal(self)
    ELSE StepFollowBoundary(self)

\* Bug2Robot.step: the robot after the call and the value returned.
Bug2Step(self) ==
    IF self.current_pos = self.goal_pos THEN [self |-> self, ret |-> TRUE]
    ELSE IF self.state = "MOVE_TO_GOAL" THEN StepMoveToGoal(self)
    ELSE IF self.state = "FOLLOW_BOUNDARY" THEN StepFollowBoundary(self)
    ELSE ExecuteMove(self, None)

\* Bug2Robot.__init__
Bug2Robot(start_pos, goal_pos, precomputed_path, obs) ==
    [current_pos |-> start_pos,
     goal_pos |-> goal_pos,
     precomputed_path |-> precomputed_path,
     obstacles |-> obs,
     path_taken |-> <<start_pos>>,
     state |-> "MOVE_TO_GOAL",
     m_line |-> _calculate_m_line(precomputed_path[1], goal_pos),
     hit_point |-> None,
     hit_distance |-> Infinity,
     leave_point |-> None,
     current_dir |-> NoDir,
     path_index |-> None]

\* The simulation set-ups of task 3.2
NAV_MAX_STEPS == 100
START_1 == 1
GOAL_1 == 40
UNEXPECTED_OBSTACLE_1 == {22}
START_2 == 36
GOAL_2 == 42
UNEXPECTED_OBSTACLE_2 == {39, 40}

(***************************************************************************)
(* CoordinatedRobot (task 4)                                               *)
(***************************************************************************)
HOLDING_SPOT == 23
CO_MAX_STEPS == 25
R1_START == 4
R1_GOAL == 41
R2_START == 41
R2_GOAL == 4

\* CoordinatedRobot.__init__ (path_index is the 0-based index of the source)
CoordinatedRobot(robot_id, start_pos, goal_pos, path_plan) ==
    [id |-> robot_id,
     current_pos |-> start_pos,
     goal_pos |-> goal_pos,
     path_plan |-> path_plan,
     path_taken |-> <<start_pos>>,
     path_index |-> IF InSeq(path_plan, start_pos) THEN IndexOf(path_plan, start_pos) - 1 ELSE 0,
     state |-> "MOVE",
     conflict_pos |-> None]

get_next_on_plan(self) ==
    IF self.path_index + 1 < Len(self.path_plan)
    THEN self.path_plan[self.path_index + 2]
    ELSE None

\* path_plan[path_index + 1] of the RESUMING_PATH branch raises IndexError
\* past the end of the plan.
TargetRaises(self) ==
    self.state = "RESUMING_PATH" /\ ~(self.path_index + 1 < Len(self.path_plan))

get_current_target(self) ==
    IF self.state = "MOVE" THEN get_next_on_plan(self)
    ELSE IF self.state = "HOLDING" THEN HOLDING_SPOT
    ELSE IF self.state = "RESUMING_PATH" /\ ~TargetRaises(self)
         THEN self.path_plan[self.path_index + 2]
    ELSE None

\* Variant of check_for_conflict without the swap test.
check_for_conflict_HeadOnOnly(self, predicted_next_pos, other_robot) ==
    LET other_next_move == get_current_target(other_robot)
    IN  IF predicted_next_pos = other_next_move
        THEN [is_conflict |-> TRUE, conflict_pos |-> predicted_next_pos]
        ELSE [is_conflict |-> FALSE, conflict_pos |-> None]

check_for_conflict(self, predicted_next_pos, other_robot) ==
    LET other_next_move == get_current_target(other_robot)
    IN  IF predicted_next_pos = other_next_move
        THEN [is_conflict |-> TRUE, conflict_pos |-> predicted_next_pos]
        ELSE IF predicted_next_pos = other_robot.current_pos
                /\ self.current_pos = other_next_move
        THEN [is_conflict |-> TRUE, conflict_pos |-> predicted_next_pos]
        ELSE [is_conflict |-> FALSE, conflict_pos |-> None]

\* "2. Execute Move"
CoExecuteMove(self, next_pos) ==
    [self EXCEPT !.current_pos = next_pos, !.path_taken = Append(@, next_pos)]

\* Variant of the MOVE branch in which either robot yields on a conflict.
CoStepMove_AnyoneYields(self, other_robot) ==
    LET next_on_plan == get_next_on_plan(self)
        c == check_for_conflict(self, next_on_plan, other_robot)
    IN  IF next_on_plan = None THEN self
        ELSE IF c.is_conflict
        THEN CoExecuteMove([self EXCEPT !.conflict_pos = c.conflict_pos,
                                        !.state = "HOLDING"], HOLDING_SPOT)
        ELSE CoExecuteMove([self EXCEPT !.path_index = @ + 1], next_on_plan)

CoStepMove(self, other_robot) ==
    LET next_on_plan == get_next_on_plan(self)
        c == check_for_conflict(self, next_on_plan, other_robot)
    IN  IF next_on_plan = None THEN self
        ELSE IF c.is_conflict /\ self.id = 1
        THEN CoExecuteMove([self EXCEPT !.conflict_pos = c.conflict_pos,
                                        !.state = "HOLDING"], HOLDING_SPOT)
        ELSE CoExecuteMove([self EXCEPT !.path_index = @ + 1], next_on_plan)

\* The resume test of the HOLDING branch.
ConflictClear(self, other_robot) ==
    other_robot.path_index >= IndexOf(self.path_plan, self.conflict_pos) - 1

\* Variant of the HOLDING branch that never resumes.
CoStepHolding_NeverResumes(self, other_robot) ==
    CoExecuteMove(self, self.current_pos)

CoStepHolding(self, other_robot) ==
    IF ConflictClear(self, other_robot)
    THEN CoExecuteMove([self EXCEPT !.state = "RESUMING_PATH"],
                       self.path_plan[self.path_index + 1])
    ELSE CoExecuteMove(self, self.current_pos)

CoStepResuming(self) ==
    LET s1 == [self EXCEPT !.path_index = @ + 1]
    IN  CoExecuteMove([s1 EXCEPT !.state = "MOVE"], get_next_on_plan(s1))

\* CoordinatedRobot.step: the robot after the call.
CoStep(self, other_robot) ==
    IF self.current_pos = self.goal_pos THEN self
    ELSE IF self.state = "MOVE" THEN CoStepMove(self, other_robot)
    ELSE IF self.state = "HOLDING" THEN CoStepHolding(self, other_robot)
    ELSE CoStepResuming(self)

\* step raises when its conflict check reads the target of a robot whose
\* RESUMING_PATH target is past the end of its plan.
CoStepRaises(self, other_robot) ==
    /\ self.current_pos /= self.goal_pos
    /\ self.state = "MOVE"
    /\ get_next_on_plan(self) /= None
    /\ TargetRaises(other_robot)

Min(a, b) == IF a < b THEN a ELSE b

\* "Final Safety Check": (cell, t) for the ticks t where both traces agree.
CollisionPoints(trace_1, trace_2) ==
    {<<trace_1[t + 1], t>> : t \in {u \in 0..(Min(Len(trace_1), Len(trace_2)) - 1) :
                                        trace_1[u + 1] = trace_2[u + 1]}}

\* Bounds of the explored runs
MaxUnexpected == 1
MaxMLineIters == 12
GridMargin == 1
OppositionRadius == 1

VARIABLES
    rt_start,          \* route query: start_pos
    rt_end,            \* route query: end_pos
    rt_path,           \* route query: the path read from the table
    rt_pc,             \* "query" before the lookup, "done" after, "off" in other runs
    robot,             \* the Bug2Robot of a navigation run
    steps,             \* the driver's step counter of a navigation run
    driver,            \* "case1": the loop with the oscillation break; "case2": the plain loop
    nav_pc,            \* "run" while the driver loop runs, "stopped" after, "off" in other runs
    stop_reason,       \* why the driver loop ended
    robot_1,           \* the yielding CoordinatedRobot (id 1)
    robot_2,           \* the priority CoordinatedRobot (id 2)
    co_steps,          \* the tick counter of a coordination run
    co_pc,             \* "loop", "raised", "done"; "off" in other runs
    collision_points,  \* the set computed by the final safety check
    ml_start,          \* M-line computation: precomputed_path[0]
    ml_goal,           \* M-line computation: goal_pos
    ml_r,              \* M-line computation: r
    ml_c,              \* M-line computation: c
    ml_points,         \* M-line computation: m_line_points
    ml_last,           \* M-line computation: the argument of the latest add
    ml_iters,          \* M-line computation: passes through the loop body so far
    ml_pc,             \* "loop" in the while-loop, "done" after the return; "off" in other runs
    cv_fn,             \* conversion call: "to_index" or "to_coords"; "off" in other runs
    cv_arg,            \* conversion call: the argument, <<r, c>> or an index
    cv_res,            \* conversion call: the value returned
    cv_back,           \* conversion call: the result converted back
    cv_pc              \* "call", "returned", "back"; "off" in other runs

rtvars == <<rt_start, rt_end, rt_path, rt_pc>>
navvars == <<robot, steps, driver, nav_pc, stop_reason>>
covars == <<robot_1, robot_2, co_steps, co_pc, collision_points>>
mlvars == <<ml_start, ml_goal, ml_r, ml_c, ml_points, ml_last, ml_iters, ml_pc>>
cvvars == <<cv_fn, cv_arg, cv_res, cv_back, cv_pc>>
vars == <<rt_start, rt_end, rt_path, rt_pc, robot, steps, driver, nav_pc, stop_reason,
          robot_1, robot_2, co_steps, co_pc, collision_points,
          ml_start, ml_goal, ml_r, ml_c, ml_points, ml_last, ml_iters, ml_pc,
          cv_fn, cv_arg, cv_res, cv_back, cv_pc>>

RouteOff == rt_start = None /\ rt_end = None /\ rt_path = <<>> /\ rt_pc = "off"

NavOff ==
    /\ robot = Bug2Robot(None, None, <<None>>, {})
    /\ steps = 0
    /\ driver = "none"
    /\ nav_pc = "off"
    /\ stop_reason = "none"

CoOff ==
    /\ robot_1 = CoordinatedRobot(1, None, None, <<None>>)
    /\ robot_2 = CoordinatedRobot(2, None, None, <<None>>)
    /\ co_steps = 0
    /\ co_pc = "off"
    /\ collision_points = {}

MLineOff ==
    /\ ml_start = None /\ ml_goal = None
    /\ ml_r = 0 /\ ml_c = 0
    /\ ml_points = {}
    /\ ml_last = None
    /\ ml_iters = 0
    /\ ml_pc = "off"

ConvOff ==
    /\ cv_fn = "off"
    /\ cv_arg = None /\ cv_res = None /\ cv_back = None
    /\ cv_pc = "off"

(***************************************************************************)
(* Route queries: one lookup in the table for each pair of free cells      *)
(***************************************************************************)
RouteInit ==
    /\ rt_start \in FREE_POSITIONS
    /\ rt_end \in FREE_POSITIONS \ {rt_start}
    /\ rt_path = <<>>
    /\ rt_pc = "query"
    /\ NavOff /\ CoOff /\ MLineOff /\ ConvOff

Lookup ==
    /\ rt_pc = "query"
    /\ rt_path' = all_paths[rt_start][rt_end]
    /\ rt_pc' = "done"
    /\ UNCHANGED <<rt_start, rt_end, navvars, covars, mlvars, cvvars>>

SpecRoute == RouteInit /\ [][Lookup]_vars

(***************************************************************************)
(* Navigation runs: the driver loops of task 3.2                           *)
(***************************************************************************)
\* The sets of at most k free cells.
RECURSIVE SetsUpTo(_)
SetsUpTo(k) ==
    IF k = 0 THEN {{}}
    ELSE LET P == SetsUpTo(k - 1)
         IN  P \cup {U \cup {c} : U \in P, c \in FREE_POSITIONS}

UnexpectedSets ==
    SetsUpTo(MaxUnexpected) \cup {UNEXPECTED_OBSTACLE_1, UNEXPECTED_OBSTACLE_2}

NavInit ==
    /\ \E s \in FREE_POSITIONS : \E e \in FREE_POSITIONS \ {s} : \E U \in UnexpectedSets :
          /\ all_paths[s][e] /= <<>>
          /\ robot = Bug2Robot(s, e, all_paths[s][e], STATIC_OBSTACLES \cup U)
          /\ driver \in (IF s = START_1 /\ e = GOAL_1 /\ U = UNEXPECTED_OBSTACLE_1
                         THEN {"case1", "case2"} ELSE {"case2"})
    /\ steps = 0
    /\ nav_pc = "run"
    /\ stop_reason = "none"
    /\ RouteOff /\ CoOff /\ MLineOff /\ ConvOff

\* The oscillation break of the Case 1 loop.
Oscillation(r, n) ==
    /\ n > 10
    /\ Len(r.path_taken) > 10
    /\ r.path_taken[Len(r.path_taken)] = r.path_taken[Len(r.path_taken) - 2]

\* One evaluation of "while not robot.step() and steps < max_steps" and its body.
NavStep ==
    /\ nav_pc = "run"
    /\ LET res == Bug2Step(robot)
       IN  /\ robot' = res.self
           /\ IF res.ret
              THEN nav_pc' = "stopped" /\ stop_reason' = "returned" /\ steps' = steps
              ELSE IF ~(steps < NAV_MAX_STEPS)
              THEN nav_pc' = "stopped" /\ stop_reason' = "budget" /\ steps' = steps
              ELSE IF driver = "case1" /\ Oscillation(res.self, steps)
              THEN nav_pc' = "stopped" /\ stop_reason' = "oscillation" /\ steps' = steps
              ELSE nav_pc' = "run" /\ stop_reason' = stop_reason /\ steps' = steps + 1
    /\ UNCHANGED <<driver, rtvars, covars, mlvars, cvvars>>

SpecNav == NavInit /\ [][NavStep]_vars

(***************************************************************************)
(* Coordination runs: the simulation loop and safety check of task 4       *)
(***************************************************************************)
\* Robot 2 runs against robot 1: it starts within OppositionRadius of robot 1's
\* goal and ends within OppositionRadius of robot 1's start.
Near(a, b) == ManhattanDistance(a, b) <= OppositionRadius

CoInit ==
    /\ \E s1 \in FREE_POSITIONS : \E e1 \in FREE_POSITIONS \ {s1} :
       \E s2 \in FREE_POSITIONS \ {s1} : \E e2 \in FREE_POSITIONS \ {s2, e1} :
          /\ Near(s2, e1) /\ Near(e2, s1)
          /\ all_paths[s1][e1] /= <<>> /\ all_paths[s2][e2] /= <<>>
          /\ robot_1 = CoordinatedRobot(1, all_paths[s1][e1][1], e1, all_paths[s1][e1])
          /\ robot_2 = CoordinatedRobot(2, all_paths[s2][e2][1], e2, all_paths[s2][e2])
    /\ co_steps = 0
    /\ co_pc = "loop"
    /\ collision_points = {}
    /\ RouteOff /\ NavOff /\ MLineOff /\ ConvOff

LoopCondition ==
    /\ robot_1.current_pos /= robot_1.goal_pos \/ robot_2.current_pos /= robot_2.goal_pos
    /\ co_steps < CO_MAX_STEPS

\* One pass of the simulation loop: robot 1 steps, then robot 2 steps against
\* the robot 1 that has already moved.
Tick ==
    /\ co_pc = "loop"
    /\ LoopCondition
    /\ co_steps' = co_steps + 1
    /\ IF CoStepRaises(robot_1, robot_2)
       THEN co_pc' = "raised" /\ UNCHANGED <<robot_1, robot_2>>
       ELSE LET r1 == CoStep(robot_1, robot_2)
            IN  /\ robot_1' = r1
                /\ IF CoStepRaises(robot_2, r1)
                   THEN co_pc' = "raised" /\ robot_2' = robot_2
                   ELSE co_pc' = "loop" /\ robot_2' = CoStep(robot_2, r1)
    /\ UNCHANGED <<collision_points, rtvars, navvars, mlvars, cvvars>>

FinalSafetyCheck ==
    /\ co_pc = "loop"
    /\ ~LoopCondition
    /\ collision_points' = CollisionPoints(robot_1.path_taken, robot_2.path_taken)
    /\ co_pc' = "done"
    /\ UNCHANGED <<robot_1, robot_2, co_steps, rtvars, navvars, mlvars, cvvars>>

CoNext == Tick \/ FinalSafetyCheck

SpecCoord == CoInit /\ [][CoNext]_vars

(***************************************************************************)
(* The M-line computation of Bug2Robot, one pass of its loop at a time     *)
(***************************************************************************)
MLineInit ==
    /\ ml_start \in 1..TOTAL_POSITIONS
    /\ ml_goal \in 1..TOTAL_POSITIONS
    /\ ml_r = to_coords(ml_start)[1]
    /\ ml_c = to_coords(ml_start)[2]
    /\ ml_points = {}
    /\ ml_last = None
    /\ ml_iters = 0
    /\ ml_pc = "loop"
    /\ RouteOff /\ NavOff /\ CoOff /\ ConvOff

\* "while r != goal_r or c != goal_c"
MLineCondition ==
    ml_r /= to_coords(ml_goal)[1] \/ ml_c /= to_coords(ml_goal)[2]

MLineIterate ==
    /\ ml_pc = "loop"
    /\ MLineCondition
    /\ ml_iters < MaxMLineIters
    /\ ml_points' = ml_points \cup {to_index(ml_r, ml_c)}
    /\ ml_last' = to_index(ml_r, ml_c)
    /\ LET rc == MLineAdvance(ml_r, ml_c, to_coords(ml_goal)[1], to_coords(ml_goal)[2])
       IN  ml_r' = rc[1] /\ ml_c' = rc[2]
    /\ ml_iters' = ml_iters + 1
    /\ UNCHANGED <<ml_start, ml_goal, ml_pc, rtvars, navvars, covars, cvvars>>

MLineReturn ==
    /\ ml_pc = "loop"
    /\ ~MLineCondition
    /\ ml_points' = ml_points \cup {ml_goal}
    /\ ml_last' = ml_goal
    /\ ml_pc' = "done"
    /\ UNCHANGED <<ml_start, ml_goal, ml_r, ml_c, ml_iters, rtvars, navvars, covars, cvvars>>

MLineNext == MLineIterate \/ MLineReturn

SpecMLine == MLineInit /\ [][MLineNext]_vars

(***************************************************************************)
(* Calls of to_index and to_coords, and the conversion back of the result  *)
(***************************************************************************)
ConvInit ==
    /\ \/ /\ cv_fn = "to_index"
          /\ cv_arg \in ((0 - GridMargin)..(NUM_ROWS - 1 + GridMargin))
                            \X ((0 - GridMargin)..(NUM_COLS - 1 + GridMargin))
       \/ /\ cv_fn = "to_coords"
          /\ cv_arg \in (1 - GridMargin)..(TOTAL_POSITIONS + GridMargin)
    /\ cv_res = None
    /\ cv_back = None
    /\ cv_pc = "call"
    /\ RouteOff /\ NavOff /\ CoOff /\ MLineOff

ConvCall ==
    /\ cv_pc = "call"
    /\ cv_res' = IF cv_fn = "to_index" THEN to_index(cv_arg[1], cv_arg[2])
                 ELSE to_coords(cv_arg)
    /\ cv_pc' = "returned"
    /\ UNCHANGED <<cv_fn, cv_arg, cv_back, rtvars, navvars, covars, mlvars>>

\* The result, when there is one, is handed to the other function.
ConvBack ==
    /\ cv_pc = "returned"
    /\ IF cv_fn = "to_index"
       THEN cv_res /= None /\ cv_back' = to_coords(cv_res)
       ELSE cv_res /= NoCoords /\ cv_back' = to_index(cv_res[1], cv_res[2])
    /\ cv_pc' = "back"
    /\ UNCHANGED <<cv_fn, cv_arg, cv_res, rtvars, navvars, covars, mlvars>>

ConvNext == ConvCall \/ ConvBack

SpecConv == ConvInit /\ [][ConvNext]_vars
(***************************************************************************)
(* Properties of the coordination runs                                     *)
(***************************************************************************)
Adjacent(a, b) == a \in 1..TOTAL_POSITIONS /\ b \in 1..TOTAL_POSITIONS /\ ManhattanDistance(a, b) = 1

TickTaken == co_pc = "loop" /\ co_steps' = co_steps + 1

SwapTick ==
    /\ robot_1'.current_pos = robot_2.current_pos
    /\ robot_2'.current_pos = robot_1.current_pos
    /\ robot_1.current_pos /= robot_2.current_pos

ShippedCoordination ==
    /\ robot_1.path_plan = all_paths[R1_START][R1_GOAL] /\ robot_1.goal_pos = R1_GOAL
    /\ robot_2.path_plan = all_paths[R2_START][R2_GOAL] /\ robot_2.goal_pos = R2_GOAL

\* C1: in every coordination run the two robots are in different cells at
\* every tick boundary, and no tick swaps their cells.
C1_NoCollisionNoSwap ==
    [][TickTaken => (robot_1'.current_pos /= robot_2'.current_pos /\ ~SwapTick)]_vars

\* C2: in the shipped run (4 -> 41 against 41 -> 4) the robots are in
\* different cells at every tick boundary, no tick is a swap, and the final
\* safety check computes an empty collision set.
C2_ShippedRunSafe ==
    [][ShippedCoordination =>
          /\ robot_1'.current_pos /= robot_2'.current_pos
          /\ ~SwapTick
          /\ (co_pc' = "done" => collision_points' = {})]_vars

C2_Witness ==
    /\ ShippedCoordination
    /\ co_pc = "done"
    /\ InSeq(robot_1.path_taken, HOLDING_SPOT)
    /\ robot_1.current_pos = R1_GOAL /\ robot_2.current_pos = R2_GOAL
    /\ collision_points = {}

\* The 0-based plan index of the cell robot 1 stands on, when it is on its plan.
OnPlanAt(r, i) == i >= 0 /\ i < Len(r.path_plan) /\ r.current_pos = r.path_plan[i + 1]

\* C3: the RESUMING move puts robot 1 back on plan[i], the next tick it is in
\* MOVE on plan[i+1], and from then on it advances one plan cell per tick.
C3_ResumeWithoutSkipping ==
    [][TickTaken =>
          /\ (robot_1.state = "HOLDING" /\ robot_1'.state = "RESUMING_PATH"
                => OnPlanAt(robot_1', robot_1.path_index))
          /\ (robot_1.state = "RESUMING_PATH"
                => robot_1'.state = "MOVE" /\ OnPlanAt(robot_1', robot_1.path_index + 1))
          /\ (robot_1.state = "MOVE" /\ robot_1'.state = "MOVE"
              /\ robot_1.conflict_pos /= None /\ robot_1' /= robot_1
                => \E i \in 0..(Len(robot_1.path_plan) - 2) :
                      OnPlanAt(robot_1, i) /\ OnPlanAt(robot_1', i + 1))]_vars

\* C4: a holding robot 1 stays on the holding cell, does not resume before
\* robot 2 has occupied the contested cell, and resumes at the first tick
\* after robot 2 has.
C4_HoldUntilPassed ==
    [][TickTaken /\ robot_1.state = "HOLDING" =>
          /\ (robot_1'.state = "RESUMING_PATH"
                => InSeq(robot_2.path_taken, robot_1.conflict_pos))
          /\ (InSeq(robot_2.path_taken, robot_1.conflict_pos)
                => robot_1'.state = "RESUMING_PATH")
          /\ (robot_1'.state = "HOLDING" => robot_1'.current_pos = HOLDING_SPOT)]_vars

\* C5: when robot 1 yields it keeps its plan cursor and makes one step to a
\* holding cell that is 4-adjacent to the cell it leaves, is not the
\* contested cell, and is neither robot 2's cell nor robot 2's next cell.
C5_SideStepToFreeNeighbour ==
    [][TickTaken /\ robot_1.state = "MOVE" /\ robot_1'.state = "HOLDING" =>
          /\ robot_1'.path_index = robot_1.path_index
          /\ robot_1'.current_pos = HOLDING_SPOT
          /\ Adjacent(robot_1.current_pos, robot_1'.current_pos)
          /\ robot_1'.current_pos /= robot_1'.conflict_pos
          /\ robot_1'.current_pos /= robot_2.current_pos
          /\ robot_1'.current_pos /= get_current_target(robot_2)]_vars

(***************************************************************************)
(* Properties of the navigation runs                                       *)
(***************************************************************************)
NavConfig(s, e, U) ==
    /\ robot.precomputed_path = all_paths[s][e]
    /\ robot.goal_pos = e
    /\ robot.obstacles = STATIC_OBSTACLES \cup U

\* C6: the run 36 -> 42 with unexpected obstacles {39, 40} stops in FAILURE,
\* off cell 42.
C6_Case2EndsInFailure ==
    (nav_pc = "stopped" /\ NavConfig(START_2, GOAL_2, UNEXPECTED_OBSTACLE_2))
        => (robot.state = "FAILURE" /\ robot.current_pos /= GOAL_2)

Case1Run == driver = "case1" /\ NavConfig(START_1, GOAL_1, UNEXPECTED_OBSTACLE_1)

\* C7: the run 1 -> 40 with the unexpected obstacle 22 detects the block on
\* cell 16, follows the boundary, never fails, and stops on cell 40 with a
\* trace longer than the 10-cell plan (within 13 counted steps).
C7_Case1ReachesGoal ==
    Case1Run =>
        /\ robot.precomputed_path = <<1, 2, 3, 4, 10, 16, 22, 28, 34, 40>>
        /\ robot.state /= "FAILURE"
        /\ robot.hit_point \in {None, 16}
        /\ (robot.state = "FOLLOW_BOUNDARY" => robot.hit_point = 16)
        /\ (InSeq(robot.path_taken, 16) /\ robot.current_pos /= 16 => robot.hit_point = 16)
        /\ ~InSeq(robot.path_taken, 22)
        /\ steps <= 13
        /\ (nav_pc = "stopped" => /\ robot.current_pos = 40
                                  /\ robot.hit_point = 16
                                  /\ robot.leave_point /= None
                                  /\ Len(robot.path_taken) > Len(robot.precomputed_path))

C7_Witness ==
    /\ Case1Run
    /\ nav_pc = "stopped"
    /\ robot.current_pos = 40
    /\ robot.hit_point = 16
    /\ Len(robot.path_taken) > 10

\* C8: the navigator goes from FOLLOW_BOUNDARY to MOVE_TO_GOAL only in a step
\* whose chosen boundary cell (the cell it moves to) is on the M-line and
\* strictly closer to the goal than the recorded hit distance.
C8_LeaveOnlyCloserOnMLine ==
    [][(robot.state = "FOLLOW_BOUNDARY" /\ robot'.state = "MOVE_TO_GOAL") =>
          /\ robot'.current_pos \in robot.m_line
          /\ robot'.current_pos = robot'.path_taken[Len(robot'.path_taken)]
          /\ Len(robot'.path_taken) = Len(robot.path_taken) + 1
          /\ ManhattanDistance(robot'.current_pos, robot.goal_pos) < robot.hit_distance]_vars

C8_Witness ==
    /\ nav_pc = "run"
    /\ robot.state = "MOVE_TO_GOAL"
    /\ robot.leave_point /= None
    /\ robot.current_pos /= robot.goal_pos
    /\ robot.current_pos \in robot.m_line
    /\ ManhattanDistance(robot.current_pos, robot.goal_pos) < robot.hit_distance

IsPrefix(s, t) == Len(s) <= Len(t) /\ \A i \in 1..Len(s) : s[i] = t[i]

PlanClear == \A i \in 1..Len(robot.precomputed_path) : robot.precomputed_path[i] \notin robot.obstacles

\* C9: when no obstacle lies on the plan the navigator is in MOVE_TO_GOAL in
\* every step, its trace is always a prefix of the plan, and when it stops
\* the trace is the plan.
C9_ClearPlanIsFollowed ==
    (nav_pc \in {"run", "stopped"} /\ PlanClear) =>
        /\ robot.state = "MOVE_TO_GOAL"
        /\ IsPrefix(robot.path_taken, robot.precomputed_path)
        /\ (nav_pc = "stopped" => robot.path_taken = robot.precomputed_path)

C9_Witness ==
    /\ nav_pc = "stopped"
    /\ PlanClear
    /\ robot.obstacles /= STATIC_OBSTACLES
    /\ Len(robot.precomputed_path) >= 4
    /\ robot.path_taken = robot.precomputed_path

(***************************************************************************)
(* Properties of the route table                                           *)
(***************************************************************************)
\* Breadth-first distance on the free cells, by growing the set of cells
\* within d moves of the source.
StepFrom(S) == S \cup {q \in FREE_POSITIONS : \E p \in S : Adjacent(p, q)}

RECURSIVE GraphDistanceFrom(_, _, _)
GraphDistanceFrom(reached, target, d) ==
    IF target \in reached THEN d
    ELSE IF StepFrom(reached) = reached THEN Infinity
    ELSE GraphDistanceFrom(StepFrom(reached), target, d + 1)

GraphDistance(s, e) == GraphDistanceFrom({s}, e, 0)

\* C10: a non-empty route-table entry for (s, e) starts at s, ends at e, moves
\* between 4-adjacent free cells and has the breadth-first distance as its
\* number of moves; an entry is empty only when e is unreachable from s.
C10_RouteIsShortestPath ==
    rt_pc = "done" =>
        /\ rt_path /= <<>> =>
              /\ rt_path[1] = rt_start
              /\ rt_path[Len(rt_path)] = rt_end
              /\ \A i \in 1..Len(rt_path) : rt_path[i] \in FREE_POSITIONS
              /\ \A i \in 1..(Len(rt_path) - 1) : Adjacent(rt_path[i], rt_path[i + 1])
              /\ Len(rt_path) - 1 = GraphDistance(rt_start, rt_end)
        /\ rt_path = <<>> => GraphDistance(rt_start, rt_end) = Infinity

C10_Witness ==
    /\ rt_pc = "done"
    /\ Len(rt_path) - 1 = GraphDistance(rt_start, rt_end)
    /\ Len(rt_path) - 1 > ManhattanDistance(rt_start, rt_end)

\* C11: the route-table entry for (1, 40) is the sequence
\* 1, 2, 3, 4, 10, 16, 22, 28, 34, 40 (9 moves).
C11_Route1To40 ==
    (rt_pc = "done" /\ rt_start = 1 /\ rt_end = 40)
        => (rt_path = <<1, 2, 3, 4, 10, 16, 22, 28, 34, 40>> /\ Len(rt_path) - 1 = 9)

C11_Witness ==
    /\ rt_pc = "done" /\ rt_start = 1 /\ rt_end = 40
    /\ rt_path = <<1, 2, 3, 4, 10, 16, 22, 28, 34, 40>>

\* The cell a robot is in at tick boundary t: its trace entry, or its final
\* cell once it has stopped appending.
PositionAtTick(r, t) ==
    IF t < Len(r.path_taken) THEN r.path_taken[t + 1] ELSE r.path_taken[Len(r.path_taken)]

\* C12: the report of the final safety check holds (cell, t) exactly for the
\* ticks t of the run at whose boundary both robots were in that cell.
C12_ReportIsExact ==
    co_pc = "done" =>
        collision_points =
            {<<PositionAtTick(robot_1, t), t>> :
                t \in {u \in 0..co_steps : PositionAtTick(robot_1, u) = PositionAtTick(robot_2, u)}}

\* C13: once the navigator is in FAILURE, a call of step changes nothing of
\* the robot (state, position, heading, hit point, trace) and returns True,
\* and so does every further call.
C13_FailureIsAbsorbing ==
    [][robot.state = "FAILURE" =>
          /\ robot' = robot
          /\ Bug2Step(robot') = [self |-> robot', ret |-> TRUE]]_vars

C13_Witness ==
    /\ robot.state = "FAILURE"
    /\ nav_pc = "stopped"
    /\ stop_reason = "returned"
    /\ robot.current_pos /= robot.goal_pos
    /\ Len(robot.path_taken) > 1

\* C14: the shipped run ends with robot 1 on 41 and robot 2 on 4 before the
\* tick budget is used up (it takes 9 of the 25 ticks).
C14_ShippedRunEndsAtGoals ==
    ShippedCoordination =>
        /\ co_pc /= "raised"
        /\ co_steps <= 9
        /\ co_steps < CO_MAX_STEPS
        /\ (co_pc = "done" => /\ robot_1.current_pos = R1_GOAL
                              /\ robot_2.current_pos = R2_GOAL)

C14_Witness ==
    /\ ShippedCoordination
    /\ co_pc = "done"
    /\ co_steps = 9
    /\ robot_1.current_pos = R1_GOAL
    /\ robot_2.current_pos = R2_GOAL

(***************************************************************************)
(* Properties of the M-line computation                                    *)
(***************************************************************************)
CoordsDistance(r, c, goal) == Abs(to_coords(goal)[1] - r) + Abs(to_coords(goal)[2] - c)

\* C15: for every pair of in-grid cells the M-line loop ends within the
\* Manhattan distance many passes (each pass brings (r, c) one step closer to
\* the goal), every cell it holds is inside the grid, and the result holds
\* the goal, which is the last cell added.
C15_MLineEndsAtGoal ==
    /\ ml_iters + CoordsDistance(ml_r, ml_c, ml_goal) = ManhattanDistance(ml_start, ml_goal)
    /\ ml_iters <= ManhattanDistance(ml_start, ml_goal)
    /\ ml_iters < MaxMLineIters
    /\ to_index(ml_r, ml_c) \in 1..TOTAL_POSITIONS
    /\ ml_points \subseteq 1..TOTAL_POSITIONS
    /\ ml_pc = "done" =>
          /\ ml_goal \in ml_points
          /\ ml_last = ml_goal
          /\ ml_points = _calculate_m_line(ml_start, ml_goal)

C15_Witness ==
    /\ ml_pc = "done"
    /\ ml_start = 1 /\ ml_goal = TOTAL_POSITIONS
    /\ ml_iters = 11
    /\ ml_last = ml_goal
    /\ Cardinality(ml_points) = 12

(***************************************************************************)
(* Properties of the index conversions                                     *)
(***************************************************************************)
InGridCoords(rc) == 0 <= rc[1] /\ rc[1] < NUM_ROWS /\ 0 <= rc[2] /\ rc[2] < NUM_COLS

\* C16: to_coords(to_index(row, col)) = (row, col) for every in-grid (row, col),
\* to_index(to_coords(p)) = p for every p in 1..42, and each function returns
\* none exactly for the out-of-range inputs.
C16_IndexCoordsBijection ==
    /\ (cv_fn = "to_index" /\ cv_pc /= "call") =>
          /\ (cv_res = None) <=> ~InGridCoords(cv_arg)
          /\ InGridCoords(cv_arg) => cv_res \in 1..TOTAL_POSITIONS
          /\ cv_pc = "back" => cv_back = cv_arg
          /\ (cv_pc = "returned" /\ InGridCoords(cv_arg)) => ENABLED ConvBack
    /\ (cv_fn = "to_coords" /\ cv_pc /= "call") =>
          /\ (cv_res = NoCoords) <=> cv_arg \notin 1..TOTAL_POSITIONS
          /\ cv_arg \in 1..TOTAL_POSITIONS => InGridCoords(cv_res)
          /\ cv_pc = "back" => cv_back = cv_arg
          /\ (cv_pc = "returned" /\ cv_arg \in 1..TOTAL_POSITIONS) => ENABLED ConvBack

C16_Witness ==
    /\ cv_fn = "to_index" /\ cv_pc = "back"
    /\ cv_arg = <<NUM_ROWS - 1, NUM_COLS - 1>>
    /\ cv_res = TOTAL_POSITIONS
    /\ cv_back = cv_arg

(***************************************************************************)
(* Properties of the navigation runs: rejoining the plan, the trace,       *)
(* termination and the first boundary move                                 *)
(***************************************************************************)
OffPlanInMoveToGoal ==
    /\ nav_pc = "run"
    /\ robot.state = "MOVE_TO_GOAL"
    /\ ~InSeq(robot.precomputed_path, robot.current_pos)

\* The plan indices (1-based) searched by the rejoin: from the hit point on.
SearchedIndices ==
    (IF InSeq(robot.precomputed_path, robot.hit_point)
     THEN IndexOf(robot.precomputed_path, robot.hit_point)
     ELSE 1)..Len(robot.precomputed_path)

NearestOnPlan ==
    {i \in SearchedIndices :
        \A j \in SearchedIndices :
            ManhattanDistance(robot.current_pos, robot.precomputed_path[i])
                <= ManhattanDistance(robot.current_pos, robot.precomputed_path[j])}

\* C17: in MOVE_TO_GOAL on a cell off the plan, the next target is the plan
\* cell right after a plan cell nearest to the current position among those
\* from the hit point's index on.
C17_RejoinTargetsCellAfterNearest ==
    OffPlanInMoveToGoal =>
        \E i \in NearestOnPlan :
            /\ i < Len(robot.precomputed_path)
            /\ _get_move_to_goal(robot).pos = robot.precomputed_path[i + 1]

StartIsFree == robot.path_taken[1] \notin robot.obstacles

TraceGrows == nav_pc = "run" /\ Len(robot'.path_taken) = Len(robot.path_taken) + 1

\* C18: every position appended to the trace is one grid step from the
\* position before it, inside the grid and not an obstacle.
C18_TraceMovesOneStep ==
    [][(StartIsFree /\ TraceGrows) =>
          /\ Adjacent(robot.current_pos, robot'.current_pos)
          /\ robot'.path_taken[Len(robot'.path_taken)] = robot'.current_pos
          /\ robot'.current_pos \in 1..TOTAL_POSITIONS
          /\ robot'.current_pos \notin robot.obstacles]_vars

\* What step reads and writes apart from the trace.
Configuration(r) == [r EXCEPT !.path_taken = <<>>]

\* Stepping r up to k more times, without the driver's budget, comes back to
\* the configuration of r0 before step returns True.
RECURSIVE ReturnsTo(_, _, _)
ReturnsTo(r0, r, k) ==
    IF k = 0 THEN FALSE
    ELSE LET res == Bug2Step(r)
         IN  IF res.ret THEN FALSE
             ELSE IF Configuration(res.self) = Configuration(r0) THEN TRUE
             ELSE ReturnsTo(r0, res.self, k - 1)

StartAndGoalAreFree ==
    /\ robot.path_taken[1] \notin robot.obstacles
    /\ robot.goal_pos \notin robot.obstacles

\* C19: with the start and the goal free of obstacles, stepping without a
\* budget reaches a stop; step is a function of the configuration, so the
\* navigator is never in a configuration that stepping brings back.
C19_NoRecurringConfiguration ==
    (nav_pc = "run" /\ StartAndGoalAreFree) => ~ReturnsTo(robot, robot, TOTAL_POSITIONS)

\* right (col + 1), down (row + 1), left (col - 1), up (row - 1), as (dr, dc)
ProbeOrder == <<<<0, 1>>, <<1, 0>>, <<0, -1>>, <<-1, 0>>>>

EntersBoundaryFollowing ==
    /\ nav_pc = "run"
    /\ robot.state = "MOVE_TO_GOAL"
    /\ robot'.state = "FOLLOW_BOUNDARY"

\* C20: the step that enters boundary-following moves to the first cell, in
\* the order right, down, left, up, that is in the grid and unblocked, and
\* the heading becomes the (row, col) vector of that move.
C20_FirstBoundaryMoveOrder ==
    [][EntersBoundaryFollowing =>
          LET first == FirstClear(robot, ProbeOrder, FALSE, 1)
          IN  /\ robot'.current_pos = first.pos
              /\ robot'.current_dir = first.dir
              /\ robot'.current_dir =
                    <<to_coords(robot'.current_pos)[1] - to_coords(robot.current_pos)[1],
                      to_coords(robot'.current_pos)[2] - to_coords(robot.current_pos)[2]>>]_vars

\* The FOLLOW_BOUNDARY branch of step runs and its boundary move is the hit point.
ChoosesHitPoint ==
    /\ nav_pc = "run"
    /\ robot.state = "FOLLOW_BOUNDARY"
    /\ robot.current_pos /= robot.goal_pos
    /\ _find_boundary_move(robot).pos = robot.hit_point

\* C21: in FOLLOW_BOUNDARY, a step whose boundary move is the recorded hit
\* point enters FAILURE and leaves position and trace as they are; the leave
\* condition does not hold on the hit point, whose distance to the goal is
\* the hit distance.
C21_BackAtHitPointFails ==
    [][ChoosesHitPoint =>
          /\ robot'.state = "FAILURE"
          /\ robot'.current_pos = robot.current_pos
          /\ robot'.path_taken = robot.path_taken
          /\ _dist_to_goal(robot, robot.hit_point) = robot.hit_distance
          /\ ~LeaveCondition(robot, robot.hit_point)]_vars

C21_Witness ==
    /\ robot.state = "FAILURE"
    /\ robot.current_pos /= robot.hit_point
    /\ robot.hit_point /= None
    /\ to_index(to_coords(robot.current_pos)[1] + robot.current_dir[1],
                to_coords(robot.current_pos)[2] + robot.current_dir[2]) = robot.hit_point
    /\ robot.path_taken[Len(robot.path_taken)] = robot.current_pos

(***************************************************************************)
(* Properties of the priority robot                                        *)
(***************************************************************************)
\* Robot 2 one tick later, told from robot 2 alone: one cell further along
\* its plan, or as it is once the plan has ended.
AlongItsPlan(r) ==
    IF r.path_index + 1 < Len(r.path_plan)
    THEN [r EXCEPT !.path_index = @ + 1,
                   !.current_pos = r.path_plan[r.path_index + 2],
                   !.path_taken = Append(@, r.path_plan[r.path_index + 2])]
    ELSE r

\* C22: robot 2 is not influenced by robot 1. In every tick its step gives
\* the same result against robot 1 before and after robot 1's own move, and
\* that result depends on robot 2 alone: it stays in MOVE, advances its
\* cursor by one until its plan ends, and its trace is the part of its plan up
\* to the cursor (the whole plan when the run is over).
C22_PriorityRobotUninfluenced ==
    [][TickTaken =>
          /\ robot_2' = AlongItsPlan(robot_2)
          /\ CoStep(robot_2, robot_1) = CoStep(robot_2, robot_1')
          /\ ~CoStepRaises(robot_2, robot_1) /\ ~CoStepRaises(robot_2, robot_1')
          /\ robot_2'.state = "MOVE"
          /\ robot_2'.path_taken = SubSeq(robot_2.path_plan, 1, robot_2'.path_index + 1)
          /\ (co_pc' = "loop" /\ ~LoopCondition') => robot_2'.path_taken = robot_2.path_plan]_vars

C22_Witness ==
    /\ co_pc = "done"
    /\ robot_2.path_taken = robot_2.path_plan
    /\ robot_2.state = "MOVE"
    /\ Len(robot_2.path_plan) > 3
    /\ InSeq(robot_1.path_taken, HOLDING_SPOT)
    /\ ~InSeq(robot_1.path_plan, HOLDING_SPOT)
    /\ robot_1.path_taken /= robot_1.path_plan

(***************************************************************************)
(* Properties of boundary-following: the way back                          *)
(***************************************************************************)
UnitVectors == {<<0, 1>>, <<0, -1>>, <<1, 0>>, <<-1, 0>>}

\* The cell the robot came from: position minus heading.
CellBehind(r) ==
    to_index(to_coords(r.current_pos)[1] - r.current_dir[1],
             to_coords(r.current_pos)[2] - r.current_dir[2])

HasWayBack ==
    /\ robot.current_dir \in UnitVectors
    /\ CellBehind(robot) \in 1..TOTAL_POSITIONS
    /\ ~_is_blocked(robot, CellBehind(robot))
    /\ _find_boundary_move(robot).pos /= None

EntersFailure == nav_pc = "run" /\ robot.state /= "FAILURE" /\ robot'.state = "FAILURE"

\* C23: in FOLLOW_BOUNDARY the heading is a unit vector and the cell behind
\* the robot is in the grid and unblocked, so a boundary move exists; a step
\* of the FOLLOW_BOUNDARY branch enters FAILURE only by coming back to the hit
\* point, and FAILURE for lack of a candidate is entered only by the step
\* that detects the blocked plan cell.
C23_BoundaryMoveAlwaysExists ==
    /\ [](robot.state = "FOLLOW_BOUNDARY" => HasWayBack)
    /\ [][EntersFailure =>
            IF robot.state = "FOLLOW_BOUNDARY"
            THEN /\ _find_boundary_move(robot).pos = robot.hit_point
                 /\ robot'.current_pos = robot.current_pos
            ELSE /\ robot.state = "MOVE_TO_GOAL"
                 /\ _is_blocked(robot, _get_move_to_goal(robot).pos)
                 /\ robot'.hit_point = robot.current_pos
                 /\ robot'.current_dir = NoDir]_vars
====
